---- MODULE Spec2Model ----
(***************************************************************************)
(* PostgreSQL bulk-read source of connector-x                              *)
(* (src/connectorx/src/sources/postgres/mod.rs).                           *)
(*                                                                         *)
(* The model has three layers, each translated from the source:            *)
(*   - PostgresSource: the pool, the query list, the metadata, and         *)
(*     partition(), which checks out one connection per query;             *)
(*   - PostgresSourcePartition: one connection and one query, result_rows  *)
(*     and parser();                                                       *)
(*   - the three parsers (Binary, CSV, Cursor): the batch buffer rowbuf,   *)
(*     the cursor (current_row, current_col), fetch_next, next_loc and     *)
(*     produce.                                                            *)
(*                                                                         *)
(* A query is abstracted by the shape of its result, <<columns, rows>>.    *)
(* The rows a query's stream emits are numbered 1, 2, ... in emission      *)
(* order; a cell is <<row number, column index>>.                          *)
(***************************************************************************)
EXTENDS Integers, Sequences, FiniteSets, TLC

\* ----------------------------------------------------------------- bounds
\* Longest query list handed to set_queries.
MaxQueries == 2
\* Largest pool size nconn handed to PostgresSource::new.
MaxConn == 2
\* Widest query result and longest schema.
MaxCols == 2
\* Longest query result (rows the stream emits).
MaxRows == 4
\* Environment faults (network, driver, decode errors) injected in one run.
MaxFaults == 1
\* crate::constants::DB_BUFFER_SIZE (imported at mod.rs:11, defined outside
\* this file); the batch size, scaled down.
DB_BUFFER_SIZE == 2

Protocols == {"Binary", "CSV", "Cursor"}

Min(a, b) == IF a <= b THEN a ELSE b

\* A query: <<number of result columns, number of result rows>>.
Query == (0..MaxCols) \X (0..MaxRows)
QueryCols(q) == q[1]
QueryRows(q) == q[2]

\* The two queries the source-level specification draws its query lists from.
SourceQueries == {<<1, 2>>, <<2, 1>>}

RECURSIVE SeqsUpTo(_, _)
SeqsUpTo(S, n) ==
    IF n = 0 THEN {<<>>}
    ELSE LET shorter == SeqsUpTo(S, n - 1)
         IN shorter \cup {Append(s, x) : s \in {t \in shorter : Len(t) = n - 1}, x \in S}

\* --------------------------------------------------------- the database
\* Catalog type of the i-th column of a result (the server's answer to prepare).
PgTypeOfColumn(i) == IF i % 2 = 1 THEN "int4" ELSE "varchar"

\* stmt.columns(): name and catalog type of every column of the query.
StmtColumns(q) == [i \in 1..QueryCols(q) |-> [name |-> i, type |-> PgTypeOfColumn(i)]]

\* PostgresTypeSystem::from(&Type): catalog type to logical type.
PostgresTypeSystemFrom(t) ==
    CASE t = "int4" -> "Int4"
      [] t = "varchar" -> "VarChar"
      [] OTHER -> "Text"

\* PostgresTypePairs(catalog, logical).into(): the catalog type used for binary COPY.
PostgresTypePairs(t2, t1) ==
    CASE t1 = "Int4" -> "int4"
      [] t1 = "VarChar" -> "text"
      [] OTHER -> t2

\* ------------------------------------------------------------- the state
VARIABLES
    protocol,   \* the source's protocol tag P (fixed at construction)
    source,     \* PostgresSource: alive, queries, origin_query, names, schema, pg_schema
    pool,       \* r2d2 pool: max_size and the set of checked-out connections
    parts,      \* the partitions partition() returned, each with its parser
    drv,        \* per partition: the writer driving it (its mode and its counters)
    last,       \* the last operation and what it returned
    faults      \* environment faults still to come

vars == <<protocol, source, pool, parts, drv, last, faults>>

\* ------------------------------------------------------------ the parsers
\* A parser that is not open (the partition has no parser borrowed from it).
NoParser ==
    [open |-> FALSE, dead |-> FALSE, iter |-> [pos |-> 0, len |-> 0, width |-> 0],
     rowbuf |-> <<>>, ncols |-> 0, current_row |-> 0, current_col |-> 0]

ParserNew_NcolsOfQuery(query, schema) ==
    [open |-> TRUE, dead |-> FALSE,
     iter |-> [pos |-> 0, len |-> QueryRows(query), width |-> QueryCols(query)],
     rowbuf |-> <<>>, ncols |-> QueryCols(query), current_row |-> 0, current_col |-> 0]

\* Postgres{Binary,CSV,Raw}SourceParser::new: empty rowbuf, ncols = schema.len(),
\* cursor (0, 0). The iterator emits the query's rows, each QueryCols(query) wide.
ParserNew(query, schema) ==
    [open |-> TRUE, dead |-> FALSE,
     iter |-> [pos |-> 0, len |-> QueryRows(query), width |-> QueryCols(query)],
     rowbuf |-> <<>>, ncols |-> Len(schema), current_row |-> 0, current_col |-> 0]

\* self.iter.next(): the next row of the stream, None at its end, or an error.
IterNext(iter, fails) ==
    IF fails THEN [kind |-> "Err", iter |-> iter, row |-> 0]
    ELSE IF iter.pos < iter.len
         THEN [kind |-> "Some", iter |-> [iter EXCEPT !.pos = @ + 1], row |-> iter.pos + 1]
         ELSE [kind |-> "None", iter |-> iter, row |-> 0]

\* The loop of fetch_next: up to DB_BUFFER_SIZE calls of iter.next(), each row pushed
\* to rowbuf, stopping at None, returning at the first error. i counts the calls
\* made; the failAt-th call fails (0: none does).
RECURSIVE FetchLoop(_, _, _)
FetchLoop(ps, i, failAt) ==
    IF i = DB_BUFFER_SIZE THEN [err |-> FALSE, parser |-> ps]
    ELSE LET r == IterNext(ps.iter, i + 1 = failAt)
         IN CASE r.kind = "Err" -> [err |-> TRUE, parser |-> [ps EXCEPT !.iter = r.iter]]
              [] r.kind = "Some" ->
                    FetchLoop([ps EXCEPT !.iter = r.iter, !.rowbuf = Append(@, r.row)],
                              i + 1, failAt)
              [] OTHER -> [err |-> FALSE, parser |-> [ps EXCEPT !.iter = r.iter]]

\* The number of iter.next() calls a fetch_next makes when none fails.
FetchCalls(ps) == Min(DB_BUFFER_SIZE, ps.iter.len - ps.iter.pos + 1)

\* The tail of fetch_next: reset the cursor, return (rowbuf.len(), rowbuf.len() < DB_BUFFER_SIZE).
FetchReturn(loop) ==
    IF loop.err
    THEN [ok |-> FALSE, n |-> 0, is_last |-> FALSE, parser |-> loop.parser]
    ELSE [ok |-> TRUE, n |-> Len(loop.parser.rowbuf),
          is_last |-> Len(loop.parser.rowbuf) < DB_BUFFER_SIZE,
          parser |-> [loop.parser EXCEPT !.current_row = 0, !.current_col = 0]]

\* The head of fetch_next: if !rowbuf.is_empty() { rowbuf.drain(..) }.
Drain(ps) == IF ps.rowbuf # <<>> THEN [ps EXCEPT !.rowbuf = <<>>] ELSE ps

\* Mutants of fetch_next: the cursor is not reset; is_last also for a full batch;
\* is_last only for an empty batch; rowbuf is not drained.
BinaryFetchNext_NoReset(ps, failAt) ==
    LET loop == FetchLoop(Drain(ps), 0, failAt)
    IN [FetchReturn(loop) EXCEPT !.parser = loop.parser]

BinaryFetchNext_LastWhenFull(ps, failAt) ==
    LET r == FetchReturn(FetchLoop(Drain(ps), 0, failAt))
    IN [r EXCEPT !.is_last = r.ok /\ r.n <= DB_BUFFER_SIZE]

CSVFetchNext_LastWhenEmpty(ps, failAt) ==
    LET r == FetchReturn(FetchLoop(Drain(ps), 0, failAt))
    IN [r EXCEPT !.is_last = r.ok /\ r.n = 0]

RawFetchNext_NoDrain(ps, failAt) == FetchReturn(FetchLoop(ps, 0, failAt))

BinaryFetchNext_ResetOnError(ps, failAt) ==
    LET r == FetchReturn(FetchLoop(Drain(ps), 0, failAt))
    IN [r EXCEPT !.parser = [r.parser EXCEPT !.current_row = 0, !.current_col = 0]]

CSVFetchNext_KeepsUndrained(ps, failAt) ==
    IF ps.current_row < Len(ps.rowbuf)
    THEN FetchReturn(FetchLoop(ps, 0, failAt))
    ELSE FetchReturn(FetchLoop(Drain(ps), 0, failAt))

\* PostgresBinarySourcePartitionParser::fetch_next
BinaryFetchNext(ps, failAt) == FetchReturn(FetchLoop(Drain(ps), 0, failAt))

\* PostgresCSVSourceParser::fetch_next
CSVFetchNext(ps, failAt) == FetchReturn(FetchLoop(Drain(ps), 0, failAt))

\* PostgresRawSourceParser::fetch_next
RawFetchNext(ps, failAt) == FetchReturn(FetchLoop(Drain(ps), 0, failAt))

ParserFetchNext(proto, ps, failAt) ==
    CASE proto = "Binary" -> BinaryFetchNext(ps, failAt)
      [] proto = "CSV" -> CSVFetchNext(ps, failAt)
      [] OTHER -> RawFetchNext(ps, failAt)

\* next_loc: return the cursor and advance it in row-major order. The division
\* by ncols aborts (attempt to divide by zero) when ncols = 0, before any field
\* is written.
NextLocOf(ps) ==
    IF ps.ncols = 0
    THEN [panic |-> TRUE, ret |-> <<ps.current_row, ps.current_col>>, parser |-> ps]
    ELSE [panic |-> FALSE, ret |-> <<ps.current_row, ps.current_col>>,
          parser |-> [ps EXCEPT !.current_row = @ + ((ps.current_col + 1) \div ps.ncols),
                                !.current_col = (ps.current_col + 1) % ps.ncols]]

\* Mutant of next_loc: the column is not wrapped at ncols.
BinaryNextLoc_NoWrap(ps) ==
    IF ps.ncols = 0 THEN NextLocOf(ps)
    ELSE [panic |-> FALSE, ret |-> <<ps.current_row, ps.current_col>>,
          parser |-> [ps EXCEPT !.current_row = @ + ((ps.current_col + 1) \div ps.ncols),
                                !.current_col = ps.current_col + 1]]

\* PostgresBinarySourcePartitionParser::next_loc
BinaryNextLoc(ps) == NextLocOf(ps)

\* PostgresCSVSourceParser::next_loc
CSVNextLoc(ps) == NextLocOf(ps)

RawNextLoc_NoRowAdvance(ps) ==
    IF ps.ncols = 0 THEN NextLocOf(ps)
    ELSE [panic |-> FALSE, ret |-> <<ps.current_row, ps.current_col>>,
          parser |-> [ps EXCEPT !.current_col = (ps.current_col + 1) % ps.ncols]]

\* PostgresRawSourceParser::next_loc
RawNextLoc(ps) == NextLocOf(ps)

\* The target types a writer asks produce for, one per implementation of
\* Produce that differs in code: "number" is i8..f64, Decimal and Uuid,
\* "temporal" is DateTime<Utc>, NaiveDate, NaiveDateTime and NaiveTime, "array"
\* is Vec<i8>..Vec<Decimal>, "str" is &str, "bytea" is Vec<u8>, "json" is
\* serde_json::Value, "hstore" is HashMap<String, Option<String>>. Each has an
\* Option form (opt).
Targets == {"number", "temporal", "array", "bool", "str", "bytea", "json", "hstore"}

\* What the database holds in a cell, relative to the target asked for: SQL
\* NULL, a value of the target's type ("good"), or anything else ("bad").
Cells == {"null", "good", "bad"}

\* The result of decoding one cell: outcome is "value", "err" (an error value is
\* returned) or "panic_slice" (the call aborts); val is "None", "Some" or "T";
\* ety and data are the type and the text an error carries, if it carries any.
Decoded(outcome, val, err) ==
    [outcome |-> outcome, val |-> val, err |-> err, ety |-> "none", data |-> "none"]

\* ConnectorXError::cannot_produce::<T>(Some(data)): the CannotProduce error,
\* carrying the name of the type T it is instantiated with and the text given.
CannotProduce(ty, data) ==
    [Decoded("err", "none", "CannotProduce") EXCEPT !.ety = ty, !.data = data]

\* The element type T of the array target Vec<T>: i8..f64 and Decimal.
ElementOf(t) == IF t = "array" THEN "number" ELSE t

\* row.try_get(cidx)? of the Binary and Cursor parsers for a column of the row:
\* NULL converts to None for Option<T> and to an error for T; a value of another
\* type is an error.
TryGet(opt, cell) ==
    CASE cell = "null" -> IF opt THEN Decoded("value", "None", "none")
                          ELSE Decoded("err", "none", "Postgres")
      [] cell = "good" -> Decoded("value", IF opt THEN "Some" ELSE "T", "none")
      [] OTHER -> Decoded("err", "none", "Postgres")

\* The text of a cell in the CSV stream: NULL is sent as the empty field; "text"
\* stands for a text the target's parser accepts, "junk" for one it rejects.
CSVFieldOf(cell) ==
    CASE cell = "null" -> "" [] cell = "good" -> "text" [] OTHER -> "junk"

\* impl_csv_produce!, bool, the temporal types and Value, for target t: the
\* Option form maps "" to None; everything else is parsed, and a text that does
\* not parse (the empty text included) is cannot_produce::<t>(Some(field)).
CSVParseField(t, opt, field) ==
    IF opt /\ field = "" THEN Decoded("value", "None", "none")
    ELSE IF field = "text" THEN Decoded("value", IF opt THEN "Some" ELSE "T", "none")
    ELSE CannotProduce(t, field)

\* impl_csv_vec_produce! for Vec<$t>: the Option form maps "" to None; "{}" and
\* a text whose elements parse give the vector; a text shorter than 3 (the empty
\* text included) or with an element that does not parse is
\* cannot_produce::<$t>(Some(s)), $t being the element type.
CSVVecField(t, opt, field) ==
    IF opt /\ field = "" THEN Decoded("value", "None", "none")
    ELSE IF field = "text" THEN Decoded("value", IF opt THEN "Some" ELSE "T", "none")
    ELSE CannotProduce(ElementOf(t), field)

\* Produce<&str> returns &self.rowbuf[ridx][cidx] whatever the field is;
\* Produce<Option<&str>> maps "" to None.
CSVStrField(opt, field) ==
    IF opt /\ field = "" THEN Decoded("value", "None", "none")
    ELSE Decoded("value", IF opt THEN "Some" ELSE "T", "none")

\* Produce<Vec<u8>> is decode(&field[2..])?: the slice aborts on the empty field;
\* Produce<Option<Vec<u8>>> maps "" to None first.
CSVByteaField(opt, field) ==
    IF opt /\ field = "" THEN Decoded("value", "None", "none")
    ELSE IF field = "" THEN Decoded("panic_slice", "none", "none")
    ELSE IF field = "text" THEN Decoded("value", IF opt THEN "Some" ELSE "T", "none")
    ELSE Decoded("err", "none", "Hex")

\* The CSV parser's decoding of a field for target t (hstore is not decoded).
CSVDecode(t, opt, field) ==
    CASE t = "str" -> CSVStrField(opt, field)
      [] t = "bytea" -> CSVByteaField(opt, field)
      [] t = "array" -> CSVVecField(t, opt, field)
      [] OTHER -> CSVParseField(t, opt, field)

Panics == {"panic_div", "panic_index", "panic_slice", "panic_unimplemented"}

\* What a produce call returns: outcome is "value" (the cell was decoded), "err"
\* (an error value), "panic_div" (next_loc divided by zero), "panic_index"
\* (rowbuf[ridx], or the CSV record's [cidx], out of bounds), "panic_slice" or
\* "panic_unimplemented". row is the stream's row number at rowbuf[ridx] (0 when
\* ridx is outside rowbuf).
ProduceResult(dec, ret, ps) ==
    [outcome |-> dec.outcome, val |-> dec.val, err |-> dec.err,
     ety |-> dec.ety, data |-> dec.data,
     ridx |-> ret[1], cidx |-> ret[2],
     row |-> IF ret[1] < Len(ps.rowbuf) THEN ps.rowbuf[ret[1] + 1] ELSE 0,
     parser |-> IF dec.outcome \in Panics THEN [ps EXCEPT !.dead = TRUE] ELSE ps]

PanicDiv == Decoded("panic_div", "none", "none")

PanicIndex == Decoded("panic_index", "none", "none")

\* impl_produce! for the Binary parser: next_loc, &self.rowbuf[ridx],
\* row.try_get(cidx)? with dec the result of try_get for a column of the row.
BinaryProduce(ps, dec) ==
    LET nl == BinaryNextLoc(ps)
    IN IF nl.panic THEN ProduceResult(PanicDiv, nl.ret, nl.parser)
       ELSE IF nl.ret[1] >= Len(nl.parser.rowbuf)
            THEN ProduceResult(PanicIndex, nl.ret, nl.parser)
       ELSE IF nl.ret[2] >= nl.parser.iter.width
            THEN ProduceResult(Decoded("err", "none", "Postgres"), nl.ret, nl.parser)
       ELSE ProduceResult(dec, nl.ret, nl.parser)

CSVProduce_NoAdvanceOnError(ps, dec) ==
    LET nl == CSVNextLoc(ps)
    IN IF nl.panic THEN ProduceResult(PanicDiv, nl.ret, nl.parser)
       ELSE IF nl.ret[1] >= Len(nl.parser.rowbuf)
            THEN ProduceResult(PanicIndex, nl.ret, nl.parser)
       ELSE IF nl.ret[2] >= nl.parser.iter.width
            THEN ProduceResult(PanicIndex, nl.ret, nl.parser)
       ELSE IF dec.outcome = "err" THEN ProduceResult(dec, nl.ret, ps)
       ELSE ProduceResult(dec, nl.ret, nl.parser)

\* The produce implementations of the CSV parser: next_loc,
\* self.rowbuf[ridx][cidx], then the decoding of the field (dec).
CSVProduce(ps, dec) ==
    LET nl == CSVNextLoc(ps)
    IN IF nl.panic THEN ProduceResult(PanicDiv, nl.ret, nl.parser)
       ELSE IF nl.ret[1] >= Len(nl.parser.rowbuf)
            THEN ProduceResult(PanicIndex, nl.ret, nl.parser)
       ELSE IF nl.ret[2] >= nl.parser.iter.width
            THEN ProduceResult(PanicIndex, nl.ret, nl.parser)
       ELSE ProduceResult(dec, nl.ret, nl.parser)

\* impl_produce! for the Cursor parser: next_loc, &self.rowbuf[ridx], row.try_get(cidx)?.
RawProduce(ps, dec) ==
    LET nl == RawNextLoc(ps)
    IN IF nl.panic THEN ProduceResult(PanicDiv, nl.ret, nl.parser)
       ELSE IF nl.ret[1] >= Len(nl.parser.rowbuf)
            THEN ProduceResult(PanicIndex, nl.ret, nl.parser)
       ELSE IF nl.ret[2] >= nl.parser.iter.width
            THEN ProduceResult(Decoded("err", "none", "Postgres"), nl.ret, nl.parser)
       ELSE ProduceResult(dec, nl.ret, nl.parser)

\* Produce<HashMap<String, Option<String>>> and its Option form for the Binary
\* parser: unimplemented!(..) aborts the call; next_loc is not called.
BinaryProduceHstore(ps) ==
    ProduceResult(Decoded("panic_unimplemented", "none", "none"),
                  <<ps.current_row, ps.current_col>>, ps)

\* The same two implementations for the CSV parser.
CSVProduceHstore(ps) ==
    ProduceResult(Decoded("panic_unimplemented", "none", "none"),
                  <<ps.current_row, ps.current_col>>, ps)

\* produce::<T> (opt = FALSE) or produce::<Option<T>> (opt = TRUE) for target t
\* on the parser of protocol proto, when the cell at the cursor holds cell.
ParserProduce(proto, ps, t, opt, cell) ==
    CASE proto = "Binary" ->
            IF t = "hstore" THEN BinaryProduceHstore(ps)
            ELSE BinaryProduce(ps, TryGet(opt, cell))
      [] proto = "CSV" ->
            IF t = "hstore" THEN CSVProduceHstore(ps)
            ELSE CSVProduce(ps, CSVDecode(t, opt, CSVFieldOf(cell)))
      [] OTHER -> RawProduce(ps, TryGet(opt, cell))

\* ---------------------------------------------------------------- the pool
\* Pool::builder().max_size(nconn).build(manager): nconn connections, none checked out.
PoolNew(nconn) == [max_size |-> nconn, out |-> {}]

PoolIdle(pl) == (1..pl.max_size) \ pl.out

\* pool.get(): an idle connection, checked out; an error when the environment
\* fails, or when no connection is idle and none is returned before the timeout.
\* Every caller of pool.get() is a method of the source, and while the source
\* runs one nothing returns a connection it waits for.
PoolGet(pl, fails) ==
    IF fails \/ PoolIdle(pl) = {}
    THEN [ok |-> FALSE, conn |-> 0, pool |-> pl]
    ELSE LET c == CHOOSE x \in PoolIdle(pl) : \A y \in PoolIdle(pl) : x <= y
         IN [ok |-> TRUE, conn |-> c, pool |-> [pl EXCEPT !.out = @ \cup {c}]]

\* Dropping a PooledConnection returns it to the pool.
PoolPut(pl, c) == [pl EXCEPT !.out = @ \ {c}]

\* -------------------------------------------------------------- the source
\* PostgresSource::new: no origin query, no queries, empty names, schema, pg_schema.
SourceNew ==
    [alive |-> TRUE, origin_query |-> <<>>, queries |-> <<>>,
     names |-> <<>>, schema |-> <<>>, pg_schema |-> <<>>, prepared |-> <<>>]

\* The metadata fetch_metadata records from the prepared statement of a query.
MetadataNames(q) == [i \in 1..QueryCols(q) |-> StmtColumns(q)[i].name]
MetadataSchema(q) == [i \in 1..QueryCols(q) |-> PostgresTypeSystemFrom(StmtColumns(q)[i].type)]
MetadataPgSchema(q) ==
    [i \in 1..QueryCols(q) |-> PostgresTypePairs(StmtColumns(q)[i].type, MetadataSchema(q)[i])]

\* Mutants of PostgresSourcePartition::new: every partition is given the pool's
\* first connection; nrows and ncols are initialised the wrong way round.
PartitionNew_SharedConn(conn, query, schema, pg_schema) ==
    [live |-> TRUE, conn |-> 1, query |-> query, schema |-> schema,
     pg_schema |-> pg_schema, nrows |-> 0, ncols |-> Len(schema), parser |-> NoParser]

PartitionNew_Swapped(conn, query, schema, pg_schema) ==
    [live |-> TRUE, conn |-> conn, query |-> query, schema |-> schema,
     pg_schema |-> pg_schema, nrows |-> Len(schema), ncols |-> 0, parser |-> NoParser]

\* PostgresSourcePartition::new
PartitionNew(conn, query, schema, pg_schema) ==
    [live |-> TRUE, conn |-> conn, query |-> query, schema |-> schema,
     pg_schema |-> pg_schema, nrows |-> 0, ncols |-> Len(schema), parser |-> NoParser]

RECURSIVE ReleaseAll(_, _)
\* Dropping the vector ret drops its partitions, each returning its connection.
ReleaseAll(pl, ret) ==
    IF ret = <<>> THEN pl ELSE ReleaseAll(PoolPut(pl, Head(ret).conn), Tail(ret))

\* The loop of partition(): for the i-th query, pool.get()? and push a new
\* partition to ret. The failAt-th checkout fails in the environment (0: none).
\* A failed checkout returns the error from partition(); ret is dropped.
RECURSIVE PartitionLoop(_, _, _, _, _)
PartitionLoop(src, pl, ret, i, failAt) ==
    IF i > Len(src.queries)
    THEN [ok |-> TRUE, ret |-> ret, pool |-> pl, failedAt |-> 0]
    ELSE LET g == PoolGet(pl, i = failAt)
         IN IF ~g.ok
            THEN [ok |-> FALSE, ret |-> <<>>, pool |-> ReleaseAll(g.pool, ret), failedAt |-> i]
            ELSE PartitionLoop(src, g.pool,
                               Append(ret, PartitionNew(g.conn, src.queries[i],
                                                        src.schema, src.pg_schema)),
                               i + 1, failAt)

\* PostgresSource::partition
SourcePartition(src, pl, failAt) == PartitionLoop(src, pl, <<>>, 1, failAt)

\* DataOrder: the orders a caller can ask for. DATA_ORDERS = [RowMajor].
DataOrders == {"RowMajor", "ColumnMajor"}

SourceSetDataOrder_AcceptsAll(src, data_order) ==
    [ok |-> TRUE, err |-> "none", order |-> data_order, source |-> src]

\* PostgresSource::set_data_order: throws UnsupportedDataOrder(data_order) unless
\* the order is RowMajor; assigns nothing.
SourceSetDataOrder(src, data_order) ==
    IF data_order # "RowMajor"
    THEN [ok |-> FALSE, err |-> "UnsupportedDataOrder", order |-> data_order, source |-> src]
    ELSE [ok |-> TRUE, err |-> "none", order |-> data_order, source |-> src]

SourceSetQueries_ClearsMetadata(src, qs) ==
    [src EXCEPT !.queries = qs, !.names = <<>>, !.schema = <<>>, !.pg_schema = <<>>]

\* PostgresSource::set_queries
SourceSetQueries(src, qs) == [src EXCEPT !.queries = qs]

\* PostgresSource::set_origin_query: query is None (<<>>) or Some(q) (<<q>>).
SourceSetOriginQuery(src, query) == [src EXCEPT !.origin_query = query]

\* get_total_rows(conn, query): the count of the query's rows, or an error.
GetTotalRows(query, fails) ==
    IF fails THEN [ok |-> FALSE, nrows |-> 0] ELSE [ok |-> TRUE, nrows |-> QueryRows(query)]

SourceFetchMetadata_LastQuery(src, pl, failAt) ==
    LET g == PoolGet(pl, failAt = 1)
        q == src.queries[Len(src.queries)]
    IN IF ~g.ok \/ failAt = 2
       THEN [ok |-> FALSE, err |-> "Postgres", source |-> src, pool |-> pl]
       ELSE [ok |-> TRUE, err |-> "none",
             source |-> [src EXCEPT !.names = MetadataNames(q),
                                    !.schema = MetadataSchema(q),
                                    !.pg_schema = MetadataPgSchema(q)],
             pool |-> pl]

SourceFetchMetadata_LeakOnPrepareError(src, pl, failAt) ==
    LET g == PoolGet(pl, failAt = 1)
        q == src.queries[1]
    IN IF ~g.ok
       THEN [ok |-> FALSE, err |-> "PostgresPool", source |-> src, pool |-> g.pool]
       ELSE IF failAt = 2
       THEN [ok |-> FALSE, err |-> "Postgres", source |-> src, pool |-> g.pool]
       ELSE [ok |-> TRUE, err |-> "none",
             source |-> [src EXCEPT !.names = MetadataNames(q),
                                    !.schema = MetadataSchema(q),
                                    !.pg_schema = MetadataPgSchema(q)],
             pool |-> PoolPut(g.pool, g.conn)]

\* PostgresSource::fetch_metadata past its assertion: pool.get()? (the failAt = 1
\* fault), conn.prepare(queries[0])? (the failAt = 2 fault), then names, schema
\* and pg_schema are assigned from the statement's columns (prepared remembers
\* the query the statement was prepared for). conn is a local: it
\* is dropped, and so returned to the pool, on every path it was obtained on.
SourceFetchMetadata(src, pl, failAt) ==
    LET g == PoolGet(pl, failAt = 1)
        q == src.queries[1]
    IN IF ~g.ok
       THEN [ok |-> FALSE, err |-> "PostgresPool", source |-> src, pool |-> g.pool]
       ELSE IF failAt = 2
       THEN [ok |-> FALSE, err |-> "Postgres", source |-> src,
             pool |-> PoolPut(g.pool, g.conn)]
       ELSE [ok |-> TRUE, err |-> "none",
             source |-> [src EXCEPT !.names = MetadataNames(q),
                                    !.schema = MetadataSchema(q),
                                    !.pg_schema = MetadataPgSchema(q),
                                    !.prepared = <<q>>],
             pool |-> PoolPut(g.pool, g.conn)]

SourceResultRows_AlwaysNone(src, pl, failAt) ==
    [ok |-> TRUE, err |-> "none", val |-> <<>>, pool |-> pl, checkouts |-> 0]

\* PostgresSource::result_rows: None without an origin query; otherwise
\* pool.get()? (the failAt = 1 fault), get_total_rows(&mut conn, &cxq)? (the
\* failAt = 2 fault), Some(nrows). checkouts counts the calls of pool.get().
SourceResultRows(src, pl, failAt) ==
    IF src.origin_query = <<>>
    THEN [ok |-> TRUE, err |-> "none", val |-> <<>>, pool |-> pl, checkouts |-> 0]
    ELSE LET g == PoolGet(pl, failAt = 1)
             r == GetTotalRows(src.origin_query[1], failAt = 2)
         IN IF ~g.ok
            THEN [ok |-> FALSE, err |-> "PostgresPool", val |-> <<>>, pool |-> g.pool,
                  checkouts |-> 1]
            ELSE [ok |-> r.ok, err |-> IF r.ok THEN "none" ELSE "Postgres",
                  val |-> IF r.ok THEN <<r.nrows>> ELSE <<>>,
                  pool |-> PoolPut(g.pool, g.conn), checkouts |-> 1]

\* PostgresSource::names
SourceNames(src) == src.names

\* PostgresSource::schema
SourceSchema(src) == src.schema

\* ------------------------------------------------------------- the writer
\* The writer driving a partition. mode "contract": after each fetch_next that
\* returned n it makes exactly n * ncols produce calls, then calls fetch_next
\* again unless is_last, and it stops at the first error. mode "continue": the
\* same, but it goes on after a call that returned an error. mode "free": any call
\* at any time. fetch is the outcome of the last fetch_next ("none" before the
\* first), n and is_last what it returned, inBatch the produce calls since,
\* total the produce calls overall, rows the rows fetched overall.
DriverNew(mode) ==
    [mode |-> mode, fetch |-> "none", n |-> 0, is_last |-> FALSE,
     inBatch |-> 0, total |-> 0, rows |-> 0, stopped |-> FALSE]

NoLast ==
    [op |-> "new", part |-> 0, ok |-> TRUE, n |-> 0, is_last |-> FALSE, outcome |-> "none",
     ridx |-> 0, cidx |-> 0, row |-> 0, k |-> 0, kb |-> 0, n0 |-> 0, fetch0 |-> "none",
     pos0 |-> 0, row0 |-> 0, col0 |-> 0, failedAt |-> 0,
     err |-> "none", val |-> <<>>, order |-> "none", arg |-> "none", checkouts |-> 0,
     pval |-> "none", target |-> "none", opt |-> FALSE, cell |-> "none",
     ety |-> "none", data |-> "none"]

Live(p) == p \in DOMAIN parts /\ parts[p].live

Usable(p) == Live(p) /\ parts[p].parser.open /\ ~parts[p].parser.dead /\ ~drv[p].stopped

CanFetch(p) ==
    /\ Usable(p)
    /\ drv[p].mode # "free" =>
          \/ drv[p].fetch = "none"
          \/ /\ drv[p].fetch = "ok"
             /\ drv[p].inBatch = drv[p].n * parts[p].ncols
             /\ ~drv[p].is_last

CanProduce(p) ==
    /\ Usable(p)
    /\ drv[p].mode # "free" =>
          /\ drv[p].fetch = "ok"
          /\ drv[p].inBatch < drv[p].n * parts[p].ncols

\* The partition was driven to completion: the last batch is drained.
Done(p) ==
    /\ Usable(p)
    /\ drv[p].fetch = "ok"
    /\ drv[p].is_last
    /\ drv[p].inBatch = drv[p].n * parts[p].ncols

FaultChoices(n) == 0..(IF faults > 0 THEN n ELSE 0)

\* ------------------------------------------------------------ the actions
\* set_queries
SetQueries ==
    /\ source.alive
    /\ \E qs \in SeqsUpTo(SourceQueries, MaxQueries) :
          /\ source' = SourceSetQueries(source, qs)
          /\ last' = [NoLast EXCEPT !.op = "set_queries"]
    /\ UNCHANGED <<protocol, pool, parts, drv, faults>>

\* set_data_order
SetDataOrder ==
    /\ source.alive
    /\ \E data_order \in DataOrders :
          LET r == SourceSetDataOrder(source, data_order)
          IN /\ source' = r.source
             /\ last' = [NoLast EXCEPT !.op = "set_data_order", !.ok = r.ok,
                                       !.err = r.err, !.order = r.order,
                                       !.arg = data_order]
    /\ UNCHANGED <<protocol, pool, parts, drv, faults>>

\* set_origin_query
SetOriginQuery ==
    /\ source.alive
    /\ \E query \in {<<>>} \cup {<<q>> : q \in SourceQueries} :
          /\ source' = SourceSetOriginQuery(source, query)
          /\ last' = [NoLast EXCEPT !.op = "set_origin_query"]
    /\ UNCHANGED <<protocol, pool, parts, drv, faults>>

\* The source's result_rows.
ResultRows ==
    /\ source.alive
    /\ \E failAt \in FaultChoices(IF source.origin_query = <<>> THEN 0 ELSE 2) :
          LET r == SourceResultRows(source, pool, failAt)
          IN /\ pool' = r.pool
             /\ last' = [NoLast EXCEPT !.op = "source_result_rows", !.ok = r.ok,
                                       !.err = r.err, !.val = r.val,
                                       !.checkouts = r.checkouts]
             /\ faults' = IF failAt # 0 THEN faults - 1 ELSE faults
    /\ UNCHANGED <<protocol, source, parts, drv>>

\* names()
Names ==
    /\ source.alive
    /\ last' = [NoLast EXCEPT !.op = "names", !.val = SourceNames(source)]
    /\ UNCHANGED <<protocol, source, pool, parts, drv, faults>>

\* schema()
Schema ==
    /\ source.alive
    /\ last' = [NoLast EXCEPT !.op = "schema", !.val = SourceSchema(source)]
    /\ UNCHANGED <<protocol, source, pool, parts, drv, faults>>

\* fetch_metadata: assert!(!queries.is_empty()) aborts the call (and the thread
\* that owns the source) before anything is checked out; otherwise
\* SourceFetchMetadata.
FetchMetadata ==
    /\ source.alive
    /\ IF source.queries = <<>>
       THEN /\ source' = [source EXCEPT !.alive = FALSE]
            /\ last' = [NoLast EXCEPT !.op = "fetch_metadata", !.ok = FALSE, !.outcome = "panic_assert"]
            /\ UNCHANGED <<faults, pool>>
       ELSE \E failAt \in FaultChoices(2) :
               LET r == SourceFetchMetadata(source, pool, failAt)
               IN /\ source' = r.source
                  /\ pool' = r.pool
                  /\ last' = [NoLast EXCEPT !.op = "fetch_metadata", !.ok = r.ok,
                                            !.err = r.err,
                                            !.outcome = IF r.ok THEN "ok" ELSE "err"]
                  /\ faults' = IF failAt # 0 THEN faults - 1 ELSE faults
    /\ UNCHANGED <<protocol, parts, drv>>

\* partition(): consumes the source. queries, schema and pg_schema go to the
\* partitions; origin_query is handed to no partition and is dropped with self.
Partition ==
    /\ source.alive
    /\ \E failAt \in FaultChoices(Len(source.queries)) :
          LET r == SourcePartition(source, pool, failAt)
          IN /\ source' = [source EXCEPT !.alive = FALSE, !.origin_query = <<>>]
             /\ pool' = r.pool
             /\ parts' = r.ret
             /\ drv' = [i \in 1..Len(r.ret) |-> DriverNew("contract")]
             /\ last' = [NoLast EXCEPT !.op = "partition", !.ok = r.ok,
                                       !.outcome = IF r.ok THEN "ok" ELSE "err",
                                       !.failedAt = r.failedAt, !.n = Len(r.ret)]
             /\ faults' = IF failAt # 0 /\ r.failedAt = failAt THEN faults - 1 ELSE faults
    /\ UNCHANGED protocol

PartitionResultRows_CountsColumns(pt, fails) ==
    [ok |-> ~fails, part |-> IF fails THEN pt ELSE [pt EXCEPT !.nrows = pt.ncols]]

\* SourcePartition::result_rows: self.nrows = get_total_rows(&mut self.conn, &self.query)?
PartitionResultRows(pt, fails) ==
    LET r == GetTotalRows(pt.query, fails)
    IN [ok |-> r.ok, part |-> IF r.ok THEN [pt EXCEPT !.nrows = r.nrows] ELSE pt]

\* SourcePartition::parser: copy_out / query_raw on the partition's connection,
\* then the parser over the stream and the partition's schema.
PartitionParser(pt, fails) ==
    IF fails THEN [ok |-> FALSE, part |-> pt]
    ELSE [ok |-> TRUE, part |-> [pt EXCEPT !.parser = ParserNew(pt.query, pt.schema)]]

PartResultRows(p) ==
    /\ Live(p) /\ ~parts[p].parser.open /\ ~drv[p].stopped
    /\ \E f \in FaultChoices(1) :
          LET r == PartitionResultRows(parts[p], f = 1)
          IN /\ parts' = [parts EXCEPT ![p] = r.part]
             /\ drv' = [drv EXCEPT ![p].stopped = ~r.ok]
             /\ last' = [NoLast EXCEPT !.op = "result_rows", !.part = p, !.ok = r.ok,
                                       !.n = r.part.nrows]
             /\ faults' = faults - f
    /\ UNCHANGED <<protocol, source, pool>>

PartParser(p) ==
    /\ Live(p) /\ ~parts[p].parser.open /\ ~drv[p].stopped
    /\ \E f \in FaultChoices(1) :
          LET r == PartitionParser(parts[p], f = 1)
          IN /\ parts' = [parts EXCEPT ![p] = r.part]
             /\ drv' = [drv EXCEPT ![p].stopped = ~r.ok]
             /\ last' = [NoLast EXCEPT !.op = "parser", !.part = p, !.ok = r.ok]
             /\ faults' = faults - f
    /\ UNCHANGED <<protocol, source, pool>>

\* fetch_next on the parser of partition p.
FetchNext(p) ==
    /\ CanFetch(p)
    /\ \E failAt \in FaultChoices(FetchCalls(parts[p].parser)) :
          LET ps == parts[p].parser
              r == ParserFetchNext(protocol, ps, failAt)
          IN /\ parts' = [parts EXCEPT ![p].parser = r.parser]
             /\ drv' = [drv EXCEPT ![p] =
                          [@ EXCEPT !.fetch = IF r.ok THEN "ok" ELSE "err",
                                    !.n = r.n, !.is_last = r.is_last, !.inBatch = 0,
                                    !.rows = @ + r.n,
                                    !.stopped = ~r.ok /\ drv[p].mode = "contract"]]
             /\ last' = [NoLast EXCEPT !.op = "fetch_next", !.part = p, !.ok = r.ok,
                                       !.n = r.n, !.is_last = r.is_last,
                                       !.kb = drv[p].inBatch, !.n0 = drv[p].n,
                                       !.fetch0 = drv[p].fetch, !.pos0 = ps.iter.pos,
                                       !.row0 = ps.current_row, !.col0 = ps.current_col,
                                       !.failedAt = failAt]
             /\ faults' = IF failAt # 0 THEN faults - 1 ELSE faults
    /\ UNCHANGED <<protocol, source, pool>>

\* produce::<T> or produce::<Option<T>> on the parser of partition p, for
\* target t, when the cell at the cursor holds cell.
ProduceStep(p, t, opt, cell) ==
    LET ps == parts[p].parser
        r == ParserProduce(protocol, ps, t, opt, cell)
    IN /\ parts' = [parts EXCEPT ![p].parser = r.parser]
       /\ drv' = [drv EXCEPT ![p] =
                    [@ EXCEPT !.inBatch = @ + 1, !.total = @ + 1,
                              !.stopped = r.outcome # "value" /\ drv[p].mode = "contract"]]
       /\ last' = [NoLast EXCEPT !.op = "produce", !.part = p,
                                 !.ok = (r.outcome = "value"), !.outcome = r.outcome,
                                 !.ridx = r.ridx, !.cidx = r.cidx, !.row = r.row,
                                 !.k = drv[p].total, !.kb = drv[p].inBatch,
                                 !.n0 = drv[p].n, !.fetch0 = drv[p].fetch,
                                 !.row0 = ps.current_row, !.col0 = ps.current_col,
                                 !.err = r.err, !.pval = r.val,
                                 !.ety = r.ety, !.data = r.data,
                                 !.target = t, !.opt = opt, !.cell = cell]

\* produce of a number on the parser of partition p; the cell holds a number,
\* or (a fault) something else.
Produce(p) ==
    /\ CanProduce(p)
    /\ \E f \in FaultChoices(1) :
          /\ ProduceStep(p, "number", FALSE, IF f = 1 THEN "bad" ELSE "good")
          /\ faults' = faults - f
    /\ UNCHANGED <<protocol, source, pool>>

\* produce of any target, plain or Option, on the parser of partition p, over
\* any cell.
ProduceAs(p) ==
    /\ CanProduce(p)
    /\ \E t \in Targets, opt \in BOOLEAN, cell \in Cells :
          ProduceStep(p, t, opt, cell)
    /\ UNCHANGED <<protocol, source, pool, faults>>

\* Dropping the partition (and the parser borrowed from it) returns its connection.
DropPartition(p) ==
    /\ Live(p)
    /\ parts' = [parts EXCEPT ![p].live = FALSE, ![p].parser = NoParser]
    /\ pool' = PoolPut(pool, parts[p].conn)
    /\ last' = [NoLast EXCEPT !.op = "drop", !.part = p]
    /\ UNCHANGED <<protocol, source, drv, faults>>

\* ------------------------------------------------------ the specifications
\* The source and its partitions: the source is built, configured and
\* partitioned, and each partition, on its own thread, counts its rows, opens its
\* parser and is dropped. What a parser does once open is SpecParser's.
Init ==
    /\ protocol \in Protocols
    /\ source = SourceNew
    /\ \E nconn \in 1..MaxConn : pool = PoolNew(nconn)
    /\ parts = <<>>
    /\ drv = <<>>
    /\ last = NoLast
    /\ faults = MaxFaults

Next ==
    \/ SetDataOrder
    \/ SetQueries
    \/ SetOriginQuery
    \/ FetchMetadata
    \/ ResultRows
    \/ Names
    \/ Schema
    \/ Partition
    \/ \E p \in DOMAIN parts : PartResultRows(p)
    \/ \E p \in DOMAIN parts : PartParser(p)
    \/ \E p \in DOMAIN parts : DropPartition(p)

Spec == Init /\ [][Next]_vars

\* One partition and its parser, for every query shape, every schema length the
\* source can hand over and both kinds of writer.
InitParser ==
    /\ protocol \in Protocols
    /\ \E q \in Query, m \in Query :
          /\ QueryRows(m) = 0
          /\ source = [SourceNew EXCEPT !.alive = FALSE, !.queries = <<q>>,
                                        !.names = MetadataNames(m),
                                        !.schema = MetadataSchema(m),
                                        !.pg_schema = MetadataPgSchema(m),
                                        !.prepared = <<m>>]
          /\ parts = <<PartitionNew(1, q, MetadataSchema(m), MetadataPgSchema(m))>>
    /\ pool = [max_size |-> 1, out |-> {1}]
    /\ \E mode \in {"free", "contract"} : drv = <<DriverNew(mode)>>
    /\ last = [NoLast EXCEPT !.op = "partition", !.n = 1]
    /\ faults \in 0..MaxFaults

NextParser ==
    \/ \E p \in DOMAIN parts : PartParser(p)
    \/ \E p \in DOMAIN parts : FetchNext(p)
    \/ \E p \in DOMAIN parts : Produce(p)

SpecParser == InitParser /\ [][NextParser]_vars

\* One partition of a source whose metadata was fetched for the partition's
\* query, and a writer that follows the pull contract and asks for any target
\* over any cell; it stops at the first error ("contract") or goes on to the
\* next cell after an error value ("continue").
InitProduce ==
    /\ protocol \in Protocols
    /\ \E q \in Query :
          /\ source = [SourceNew EXCEPT !.alive = FALSE, !.queries = <<q>>,
                                        !.names = MetadataNames(q),
                                        !.schema = MetadataSchema(q),
                                        !.pg_schema = MetadataPgSchema(q),
                                        !.prepared = <<q>>]
          /\ parts = <<PartitionNew(1, q, MetadataSchema(q), MetadataPgSchema(q))>>
    /\ pool = [max_size |-> 1, out |-> {1}]
    /\ \E mode \in {"contract", "continue"} : drv = <<DriverNew(mode)>>
    /\ last = [NoLast EXCEPT !.op = "partition", !.n = 1]
    /\ faults = 0

NextProduce ==
    \/ \E p \in DOMAIN parts : PartParser(p)
    \/ \E p \in DOMAIN parts : FetchNext(p)
    \/ \E p \in DOMAIN parts : ProduceAs(p)

SpecProduce == InitProduce /\ [][NextProduce]_vars

\* ---------------------------------------------------------------- claims
PartSet == DOMAIN parts

\* The result the next fetch_next on partition p's parser returns if no call fails.
NextFetch(p) == ParserFetchNext(protocol, parts[p].parser, 0)

AfterFetch(p) == last.op = "fetch_next" /\ last.part = p /\ last.ok

AfterProduce(p) == last.op = "produce" /\ last.part = p

\* C1: with a pool of one connection and two queries, and no fault of the
\* environment, partition() hands back both partitions (so that both can run);
\* no checkout fails because the other partition holds the only connection.
C1_BothPartitionsWithOneConnection ==
    (last.op = "partition" /\ pool.max_size = 1 /\ Len(source.queries) = 2
        /\ faults = MaxFaults)
    => (last.ok /\ Len(parts) = 2)

\* No connection is held by two live partitions at once, and every live
\* partition's connection is checked out of the pool.
C2_NoSharedConnection ==
    /\ \A p, q \in PartSet :
          (p # q /\ parts[p].live /\ parts[q].live) => parts[p].conn # parts[q].conn
    /\ \A p \in PartSet : parts[p].live => parts[p].conn \in pool.out

\* No step (result_rows, parser, another partition's drop) changes the connection
\* of a partition that lives on.
C2_KeepsConnection ==
    \A p \in PartSet :
        (parts[p].live /\ p \in DOMAIN parts' /\ parts'[p].live)
            => parts'[p].conn = parts[p].conn

\* C2: in every reachable state no pooled connection is held by two partitions,
\* and every step leaves a live partition the connection it was built with.
C2_ConnectionExclusive == [](C2_NoSharedConnection) /\ [][C2_KeepsConnection]_vars

C2_Witness ==
    \E p, q \in PartSet :
        /\ p # q
        /\ parts[p].live /\ parts[q].live
        /\ parts[p].parser.open /\ parts[q].parser.open
        /\ parts[p].nrows > 0 /\ parts[q].nrows > 0

\* C3: when a checkout fails inside partition(), the partitions of the other
\* queries are still produced: all but the failed one are returned.
C3_SiblingsSurviveCheckoutFailure ==
    (last.op = "partition" /\ last.failedAt # 0)
    => Len(parts) = Len(source.queries) - 1

\* C4: a successful fetch_next returns (n, is_last) where n is rowbuf.len() and
\* the number of rows pulled from the stream by this call (rowbuf holds exactly
\* those rows, in order), and is_last holds iff n < DB_BUFFER_SIZE.
C4_FetchNextResult ==
    \A p \in PartSet :
        AfterFetch(p) =>
            LET ps == parts[p].parser
            IN /\ last.n = Len(ps.rowbuf)
               /\ last.n = ps.iter.pos - last.pos0
               /\ ps.rowbuf = [i \in 1..last.n |-> last.pos0 + i]
               /\ last.is_last <=> (last.n < DB_BUFFER_SIZE)

C4_Witness ==
    \E p \in PartSet :
        AfterFetch(p) /\ last.n = DB_BUFFER_SIZE /\ ~last.is_last /\ last.pos0 > 0

\* C5 as stated: a successful fetch_next returns is_last = true if and only if
\* the next fetch_next would return (0, true).
C5_EofMarkerIff ==
    \A p \in PartSet :
        AfterFetch(p) => (last.is_last <=> (NextFetch(p).n = 0 /\ NextFetch(p).is_last))

\* C5 amended: if a successful fetch_next returns is_last = true, the next
\* fetch_next (when no call of it fails) returns (0, true); and when the next
\* fetch_next would return (0, true), this one returned is_last = true or a full
\* batch of DB_BUFFER_SIZE rows that exhausted the stream.
C5_EofMarkerImplies ==
    \A p \in PartSet :
        AfterFetch(p) =>
            /\ last.is_last => (NextFetch(p).ok /\ NextFetch(p).n = 0 /\ NextFetch(p).is_last)
            /\ (NextFetch(p).n = 0 /\ NextFetch(p).is_last)
                  => (last.is_last \/ last.n = DB_BUFFER_SIZE)

C5_Witness ==
    \E p \in PartSet : AfterFetch(p) /\ last.is_last /\ last.n > 0 /\ last.pos0 > 0

\* C6: after a successful fetch_next, whatever the parser's state before it, the
\* cursor is (0, 0); and rowbuf never holds more than DB_BUFFER_SIZE rows.
C6_AfterFetchNext ==
    \A p \in PartSet :
        /\ Len(parts[p].parser.rowbuf) <= DB_BUFFER_SIZE
        /\ AfterFetch(p) =>
              (parts[p].parser.current_row = 0 /\ parts[p].parser.current_col = 0)

\* The fetch_next came while the previous batch was partly drained, the cursor
\* in the middle of it.
C6_Witness ==
    \E p \in PartSet :
        /\ AfterFetch(p)
        /\ <<last.row0, last.col0>> # <<0, 0>>
        /\ 0 < last.kb /\ last.kb < last.n0 * parts[p].ncols
        /\ last.n > 0

\* C7: after a fetch_next that returned n rows (n = 0 before the first one),
\* each of the first n * ncols produce calls reads a location inside rowbuf with
\* col < ncols, and a later produce call addresses a row outside rowbuf and
\* yields no value.
C7_ExactlyNTimesNcolsValid ==
    \A p \in PartSet :
        (AfterProduce(p) /\ last.fetch0 \in {"none", "ok"}) =>
            LET ps == parts[p].parser
            IN IF last.kb < last.n0 * ps.ncols
               THEN last.ridx < Len(ps.rowbuf) /\ last.cidx < ps.ncols
               ELSE last.ridx >= Len(ps.rowbuf) /\ last.outcome # "value"

\* C8: for a partition driven to completion by a writer that follows the pull
\* contract, the produce calls over all batches number rows * ncols, rows being
\* all the rows of the stream.
C8_TotalProduceCalls ==
    \A p \in PartSet :
        (drv[p].mode = "contract" /\ Done(p)) =>
            /\ parts[p].parser.iter.pos = parts[p].parser.iter.len
            /\ drv[p].total = parts[p].parser.iter.len * parts[p].ncols

C8_Witness ==
    \E p \in PartSet :
        /\ drv[p].mode = "contract" /\ Done(p)
        /\ parts[p].parser.iter.len > DB_BUFFER_SIZE
        /\ parts[p].parser.iter.len % DB_BUFFER_SIZE = 0
        /\ parts[p].ncols = 2

\* C9: for a writer that follows the pull contract, the k-th produce call (from
\* 0, over all batches) reads column k mod ncols of the stream's row number
\* k div ncols + 1; and at completion every row of the stream was fetched.
C9_EmissionOrder ==
    \A p \in PartSet :
        drv[p].mode = "contract" =>
            /\ AfterProduce(p) =>
                  /\ last.ridx < Len(parts[p].parser.rowbuf)
                  /\ last.cidx = last.k % parts[p].ncols
                  /\ last.row = (last.k \div parts[p].ncols) + 1
            /\ Done(p) => drv[p].rows = parts[p].parser.iter.len

\* The first produce call of a second batch: it reads the row after the first batch.
C9_Witness ==
    \E p \in PartSet :
        /\ drv[p].mode = "contract" /\ AfterProduce(p)
        /\ parts[p].ncols = 2
        /\ last.k = DB_BUFFER_SIZE * parts[p].ncols
        /\ last.outcome = "value"

\* C10: a successful partition() returns one partition per query, in input
\* order: the i-th carries the i-th query, the source's schema and pg_schema,
\* ncols = |schema|, nrows = 0 and a checked-out connection of its own.
C10_PartitionResult ==
    (last.op = "partition" /\ last.ok) =>
        /\ Len(parts) = Len(source.queries)
        /\ \A i \in PartSet :
              /\ parts[i].live
              /\ parts[i].query = source.queries[i]
              /\ parts[i].schema = source.schema
              /\ parts[i].pg_schema = source.pg_schema
              /\ parts[i].ncols = Len(source.schema)
              /\ parts[i].nrows = 0
              /\ parts[i].conn \in pool.out
        /\ Cardinality({parts[i].conn : i \in PartSet}) = Len(source.queries)

C10_Witness ==
    /\ last.op = "partition" /\ last.ok
    /\ Len(parts) = 2
    /\ source.queries[1] # source.queries[2]
    /\ Len(source.schema) = 2

\* The fields of the source other than the pool.
SourceFields(src) ==
    <<src.queries, src.origin_query, src.names, src.schema, src.pg_schema>>

LivePartitions == {p \in PartSet : parts[p].live}

C13_Result ==
    last.op = "set_data_order" =>
        /\ last.ok <=> last.arg = "RowMajor"
        /\ ~last.ok => last.err = "UnsupportedDataOrder" /\ last.order = last.arg

C13_Frame ==
    last'.op = "set_data_order" =>
        SourceFields(source') = SourceFields(source) /\ pool' = pool

\* C13: set_data_order succeeds exactly for RowMajor; for any other order it
\* fails with UnsupportedDataOrder carrying the order asked for; either way
\* every field of the source is as before the call.
C13_SetDataOrder == [](C13_Result) /\ [][C13_Frame]_vars

C13_Witness ==
    /\ last.op = "set_data_order" /\ ~last.ok /\ last.order = "ColumnMajor"
    /\ source.queries # <<>> /\ source.names # <<>> /\ source.origin_query # <<>>

\* C14: names, schema and pg_schema have the same length in every state of the
\* source, and after a successful fetch_metadata that length is the number of
\* columns of the statement prepared for the first query.
C14_MetadataLengths ==
    /\ Len(source.names) = Len(source.schema)
    /\ Len(source.schema) = Len(source.pg_schema)
    /\ (last.op = "fetch_metadata" /\ last.ok) =>
           Len(source.names) = Len(StmtColumns(source.queries[1]))

C14_Witness ==
    /\ last.op = "fetch_metadata" /\ last.ok
    /\ Len(source.queries) = 2
    /\ Len(StmtColumns(source.queries[1])) # Len(StmtColumns(source.queries[2]))

C15_CheckedOut ==
    /\ pool.out = {parts[p].conn : p \in LivePartitions}
    /\ Cardinality(pool.out) = Cardinality(LivePartitions)
    /\ Cardinality(pool.out) <= pool.max_size

C15_Returned ==
    /\ last'.op \in {"fetch_metadata", "source_result_rows"} => pool'.out = pool.out
    /\ (last'.op = "partition" /\ ~last'.ok) => pool'.out = pool.out
    /\ \A p \in PartSet :
          (last'.op = "drop" /\ last'.part = p) =>
              /\ parts[p].conn \in pool.out
              /\ pool'.out = pool.out \ {parts[p].conn}

\* C15: the checked-out connections are exactly those of the live partitions
\* (no source operation is in progress between two steps), never more than
\* nconn; fetch_metadata and the source's result_rows return with the pool as
\* they found it, on success and on error; a partition() that fails gives back
\* the connections of the partitions it had built; dropping a partition gives
\* back its connection.
C15_ConnectionsReturned == [](C15_CheckedOut) /\ [][C15_Returned]_vars

C15_Witness ==
    /\ last.op = "partition" /\ ~last.ok /\ last.failedAt = 2
    /\ pool.out = {}

\* C16: the source's result_rows returns None, without a checkout, when no
\* origin query is set; with an origin query it returns Some(count of the
\* origin query) on success and the error otherwise.
C16_SourceResultRows ==
    last.op = "source_result_rows" =>
        IF source.origin_query = <<>>
        THEN last.ok /\ last.val = <<>> /\ last.checkouts = 0
        ELSE /\ last.ok => last.val = <<QueryRows(source.origin_query[1])>>
             /\ ~last.ok => last.val = <<>> /\ last.err \in {"PostgresPool", "Postgres"}

C16_Witness ==
    /\ last.op = "source_result_rows" /\ last.ok
    /\ source.origin_query # <<>> /\ source.queries # <<>>
    /\ source.queries[1] # source.origin_query[1]
    /\ last.val = <<QueryRows(source.origin_query[1])>>

C19_Nrows ==
    \A p \in PartSet :
        /\ parts[p].ncols = Len(parts[p].schema)
        /\ last.op = "partition" => parts[p].nrows = 0
        /\ (last.op = "result_rows" /\ last.part = p /\ last.ok) =>
               parts[p].nrows = QueryRows(parts[p].query)

C19_NrowsStep ==
    \A p \in PartSet \cap DOMAIN parts' :
        /\ parts'[p].ncols = parts[p].ncols
        /\ parts'[p].nrows # parts[p].nrows =>
               last'.op = "result_rows" /\ last'.part = p /\ last'.ok
        /\ (last'.op = "result_rows" /\ last'.part = p /\ ~last'.ok) =>
               parts'[p].nrows = parts[p].nrows

\* C19: a partition's nrows is 0 from construction until a result_rows of that
\* partition succeeds, which sets it to the count of the partition's own query;
\* a failing result_rows leaves nrows as it was; ncols never changes.
C19_PartitionNrows == [](C19_Nrows) /\ [][C19_NrowsStep]_vars

C19_Witness ==
    /\ Len(parts) = 2 /\ last.op = "result_rows" /\ last.part = 2 /\ last.ok
    /\ parts[1].nrows = 0
    /\ parts[2].nrows = QueryRows(parts[2].query)
    /\ QueryRows(parts[1].query) # QueryRows(parts[2].query)

C20_Frame ==
    /\ last'.op = "set_queries" =>
          /\ <<source'.origin_query, source'.names, source'.schema, source'.pg_schema>>
               = <<source.origin_query, source.names, source.schema, source.pg_schema>>
          /\ pool' = pool
    /\ last'.op = "set_origin_query" =>
          /\ <<source'.queries, source'.names, source'.schema, source'.pg_schema>>
               = <<source.queries, source.names, source.schema, source.pg_schema>>
          /\ pool' = pool
    /\ last'.op = "fetch_metadata" =>
          /\ source'.queries = source.queries
          /\ source'.origin_query = source.origin_query
          /\ ~last'.ok => SourceFields(source') = SourceFields(source)
    /\ last'.op \in {"source_result_rows", "names", "schema", "set_data_order"} =>
          SourceFields(source') = SourceFields(source)

\* C20: set_queries changes only queries, set_origin_query only origin_query,
\* fetch_metadata only names, schema and pg_schema (and none of them when it
\* fails); result_rows, names(), schema() and set_data_order change no field.
C20_SourceFrame == [][C20_Frame]_vars

C20_Witness ==
    /\ last.op = "fetch_metadata" /\ ~last.ok /\ last.err = "Postgres"
    /\ source.names # <<>>
    /\ Len(source.names) # Len(StmtColumns(source.queries[1]))

\* C11: produce of hstore, plain or Option, on the Binary and the CSV parser
\* returns an error value of kind Unimplemented; on the Cursor parser it yields
\* the value the cell holds.
C11_HstoreFailsWithTypedError ==
    \A p \in PartSet :
        (AfterProduce(p) /\ last.target = "hstore") =>
            IF protocol \in {"Binary", "CSV"}
            THEN last.outcome = "err" /\ last.err = "Unimplemented"
            ELSE last.cell = "good" => last.outcome = "value"

\* C12: null law, for every target other than hstore (C11): a NULL cell reads
\* as None through the Option producer, and through the plain producer the call
\* returns an error.
C12_NullLaw ==
    \A p \in PartSet :
        (AfterProduce(p) /\ last.cell = "null" /\ last.target # "hstore") =>
            IF last.opt
            THEN last.outcome = "value" /\ last.pval = "None"
            ELSE last.outcome = "err"

\* C17: row-major cursor law, for each parser and every ncols >= 1: the cursor's
\* column stays below ncols, and the k-th produce (counting from 0) after a
\* successful fetch_next is given the location (k div ncols, k mod ncols) by
\* next_loc.
C17_RowMajorCursor ==
    \A p \in PartSet :
        (parts[p].parser.open /\ parts[p].ncols >= 1) =>
            /\ parts[p].parser.current_col < parts[p].ncols
            /\ (AfterProduce(p) /\ last.fetch0 = "ok") =>
                  /\ last.ridx = last.kb \div parts[p].ncols
                  /\ last.cidx = last.kb % parts[p].ncols
                  /\ parts[p].parser.current_row = (last.kb + 1) \div parts[p].ncols
                  /\ parts[p].parser.current_col = (last.kb + 1) % parts[p].ncols

C17_Witness ==
    /\ AfterProduce(1) /\ last.fetch0 = "ok" /\ last.outcome = "value"
    /\ parts[1].ncols = 2 /\ last.kb = 2
    /\ last.ridx = 1 /\ last.cidx = 0

\* C18: next_loc never fails: in every parser state, whatever the schema
\* length, a produce call gets a location from next_loc and is not aborted by it.
C18_NextLocNeverFails ==
    \A p \in PartSet : AfterProduce(p) => last.outcome # "panic_div"

\* C21: every CannotProduce error of a CSV producer carries the target type of
\* the produce call (Vec<T> for an array target) and the text of the field.
C21_CannotProducePayload ==
    \A p \in PartSet :
        (AfterProduce(p) /\ protocol = "CSV" /\ last.err = "CannotProduce") =>
            /\ last.ety = last.target
            /\ last.data = CSVFieldOf(last.cell)

\* The stream rows held in a parser's rowbuf.
RowsOf(ps) == {ps.rowbuf[i] : i \in 1..Len(ps.rowbuf)}

\* The parsers of partitions that exist before and after a step.
SameParsers == {p \in PartSet \cap DOMAIN parts' :
                   parts[p].parser.open /\ parts'[p].parser.open}

C22_PartialState ==
    \A p \in PartSet :
        /\ RowsOf(parts[p].parser) \subseteq 1..parts[p].parser.iter.pos
        /\ (last.op = "fetch_next" /\ last.part = p /\ ~last.ok) =>
              /\ last.failedAt >= 1
              /\ parts[p].parser.rowbuf =
                    [i \in 1..(last.failedAt - 1) |-> last.pos0 + i]
              /\ parts[p].parser.current_row = last.row0
              /\ parts[p].parser.current_col = last.col0

C22_NotRestored ==
    \A p \in SameParsers :
        /\ parts'[p].parser.iter.pos >= parts[p].parser.iter.pos
        /\ RowsOf(parts'[p].parser) \subseteq
              RowsOf(parts[p].parser) \cup
              ((parts[p].parser.iter.pos + 1)..parts'[p].parser.iter.pos)
        /\ (last'.op = "fetch_next" /\ last'.part = p /\ ~last'.ok) =>
              RowsOf(parts'[p].parser) \cap RowsOf(parts[p].parser) = {}

\* C22: a fetch_next that fails returns the error at once and leaves the
\* parser with the previous batch dropped, rowbuf holding only the rows pulled
\* in this call before the error, and the cursor as it was before the call; no
\* later step brings back a row that left rowbuf.
C22_FetchNextError == [](C22_PartialState) /\ [][C22_NotRestored]_vars

C22_Witness ==
    /\ last.op = "fetch_next" /\ last.part = 1 /\ ~last.ok
    /\ last.failedAt = 2 /\ last.n0 >= 1
    /\ Len(parts[1].parser.rowbuf) = 1
    /\ <<last.row0, last.col0>> # <<0, 0>>
    /\ parts[1].parser.current_row = last.row0

C25_Replaced ==
    \A p \in PartSet :
        /\ RowsOf(parts[p].parser) \subseteq 1..parts[p].parser.iter.pos
        /\ (AfterFetch(p) /\ last.fetch0 = "ok" /\ last.kb < last.n0 * parts[p].ncols) =>
              /\ parts[p].parser.rowbuf = [i \in 1..last.n |-> last.pos0 + i]
              /\ parts[p].parser.iter.pos = last.pos0 + last.n
              /\ parts[p].parser.current_row = 0
              /\ parts[p].parser.current_col = 0

C25_Discarded ==
    \A p \in SameParsers :
        /\ (last'.op = "fetch_next" /\ last'.part = p /\ last'.ok) =>
              /\ RowsOf(parts'[p].parser) \cap RowsOf(parts[p].parser) = {}
              /\ RowsOf(parts'[p].parser) =
                    (parts[p].parser.iter.pos + 1)..parts'[p].parser.iter.pos
        /\ (last'.op = "produce" /\ last'.part = p /\ last'.outcome = "value") =>
              /\ parts'[p].parser.rowbuf = parts[p].parser.rowbuf
              /\ parts'[p].parser.iter = parts[p].parser.iter
              /\ last'.ridx = parts[p].parser.current_row
              /\ last'.cidx = parts[p].parser.current_col
              /\ last'.row = parts[p].parser.rowbuf[last'.ridx + 1]

\* C25: a fetch_next called before the batch is drained replaces rowbuf: the
\* new batch is the next rows of the stream with the cursor at (0, 0), it holds
\* none of the rows it replaced, and a produce only ever yields the cell at the
\* cursor of the current rowbuf, so what was discarded is never delivered.
C25_FetchNextDiscards == [](C25_Replaced) /\ [][C25_Discarded]_vars

C25_Witness ==
    /\ AfterFetch(1) /\ last.fetch0 = "ok"
    /\ parts[1].ncols = 2 /\ last.n0 = 2 /\ last.kb = 1
    /\ last.n >= 1 /\ parts[1].parser.rowbuf[1] = 3

\* The number of columns of the statement fetch_metadata last prepared with
\* success, 0 if it never did.
PreparedCols ==
    IF source.prepared = <<>> THEN 0 ELSE Len(StmtColumns(source.prepared[1]))

\* C24 as stated: every partition's ncols is the column count of the first of
\* the source's queries (0 if fetch_metadata never succeeded).
C24_NcolsOfFirstQuery ==
    \A p \in PartSet :
        parts[p].ncols = IF source.prepared = <<>> THEN 0
                         ELSE Len(StmtColumns(source.queries[1]))

\* C24: ncols is the same for every partition and every parser made from it,
\* whatever the partition's own query: it is the length of the schema the
\* source held when partition() was called, that is the column count of the
\* query fetch_metadata last prepared with success, 0 if it never did.
C24_NcolsOfSourceSchema ==
    \A p \in PartSet :
        /\ parts[p].ncols = Len(parts[p].schema)
        /\ parts[p].ncols = Len(parts[p].pg_schema)
        /\ parts[p].ncols = Len(source.schema)
        /\ parts[p].ncols = PreparedCols
        /\ parts[p].parser.open => parts[p].parser.ncols = parts[p].ncols

C24_Witness ==
    /\ Len(parts) = 2 /\ parts[2].parser.open
    /\ source.prepared # <<>>
    /\ source.prepared[1] # source.queries[1]
    /\ parts[2].parser.ncols = PreparedCols
    /\ parts[2].parser.ncols # QueryCols(parts[2].query)

\* The row-major position after (row, col).
NextPos(row, col, ncols) == <<row + ((col + 1) \div ncols), (col + 1) % ncols>>

C23_Advanced ==
    \A p \in PartSet :
        (AfterProduce(p) /\ last.outcome \in {"value", "err"}) =>
            /\ <<last.ridx, last.cidx>> = <<last.row0, last.col0>>
            /\ <<parts[p].parser.current_row, parts[p].parser.current_col>>
                 = NextPos(last.row0, last.col0, parts[p].ncols)

C23_Consumed ==
    \A p \in SameParsers :
        (last.op = "produce" /\ last.part = p /\ last.outcome = "err") =>
            /\ (last'.op = "produce" /\ last'.outcome \in {"value", "err"}) =>
                  /\ <<last'.ridx, last'.cidx>>
                       = NextPos(last.ridx, last.cidx, parts[p].ncols)
                  /\ <<last'.row, last'.cidx>> # <<last.row, last.cidx>>
            /\ last'.op = "fetch_next" => last.row \notin RowsOf(parts'[p].parser)

\* C23: a produce call that reads a cell is given the cursor's location and
\* leaves the cursor one row-major position further, whether the decoding
\* yields a value or an error; after a produce that returned an error the next
\* produce reads the following position and the next fetch_next brings rows
\* other than the failed one.
C23_FailedProduceConsumes == [](C23_Advanced) /\ [][C23_Consumed]_vars

C23_Witness ==
    /\ AfterProduce(1) /\ drv[1].mode = "continue"
    /\ protocol = "CSV" /\ last.outcome = "err" /\ last.err = "Hex"
    /\ parts[1].ncols = 2 /\ last.cidx = 1 /\ last.kb = 1
    /\ parts[1].parser.current_row = last.ridx + 1
    /\ parts[1].parser.current_col = 0

====
